---- MODULE Spec2Model ----
(***************************************************************************)
(* A model of the hex-grid board of hill/catan: the cube-coordinate        *)
(* helpers of hex.ts (src/unnamed/part_001, lines 1-171) and the board     *)
(* build of BoardGame (src/src/canvas.ts).                                 *)
(*                                                                         *)
(* Strings are modelled as sequences of UTF-16 code units, so that the     *)
(* formatting, sorting and joining done by getCoordHash are computed and   *)
(* not assumed.  Objects (tiles) live in a heap, tileObjects, and are      *)
(* referred to by their index in it, so that two roads that share a tile   *)
(* share the object.                                                       *)
(***************************************************************************)
EXTENDS Integers, Sequences, FiniteSets, TLC

(***************************************************************************)
(* Bounds of the model.                                                    *)
(***************************************************************************)
\* the board radii explored: createGrid is run for every radius 1..MaxRadius
MaxRadius == 3
\* the seeds of the pseudo random generator behind Math.random: 0..MaxSeed
MaxSeed == 1
\* the viewport widths explored are 100, 200, .. 100 * MaxWidthUnits
MaxWidthUnits == 2
\* getCoordHash is applied to the coordinate lists of at most this length
MaxListLen == 3
\* the constructors and the tile methods are applied to the tiles of the cube
\* disc of this radius
CallRadius == 1
\* cubeRound is applied to the fractions n / 2^FracBits between -RoundSpan and
\* RoundSpan
RoundSpan == 1
FracBits == 2
\* the numbers of the geometry (pixel positions, sizes, weights) are held to
\* GeoBits binary places
GeoBits == 3
\* the shapes' containment tests are applied to the sizes -1 .. MaxShapeSize
MaxShapeSize == 2

VARIABLES
    pc,                 \* position in BoardGame's constructor
    error,              \* the error thrown by the constructor, "none" if none
    radius,             \* createGrid: const radius
    width,              \* BoardGame.width
    tileSize,           \* BoardGame.tileSize
    rng,                \* the state of the generator behind Math.random
    loopR, loopQ,       \* createGrid: the loop variables r and q
    tileObjects,        \* the tile objects created so far, in creation order
    tileCoordMap,       \* BoardGame.tileCoordMap
    tileIdx, dirIdx,    \* createAllLocations: position of the two nested loops
    roads,              \* createAllLocations: const roads = []
    roadCoordMap,       \* BoardGame.roadCoordMap
    settlements,        \* createAllLocations: const settlements = []
    settlementCoordMap, \* BoardGame.settlementCoordMap
    assets,             \* the promise initializeGame awaits
    listeners,          \* the events a listener is registered for
    mouse,              \* BoardGame.mouse
    canvas,             \* what the canvas shows
    event,              \* the event whose listener ran last
    calls,              \* the callbacks that listener dispatched, in order
    fn, args, result    \* a call of one of the exported pure functions

vars == <<pc, error, radius, width, tileSize, rng, loopR, loopQ, tileObjects,
          tileCoordMap, tileIdx, dirIdx, roads, roadCoordMap, settlements,
          settlementCoordMap, assets, listeners, mouse, canvas, event, calls,
          fn, args, result>>

buildVars == <<pc, error, radius, width, tileSize, rng, loopR, loopQ,
               tileObjects, tileCoordMap, tileIdx, dirIdx, roads, roadCoordMap,
               settlements, settlementCoordMap>>

uiVars == <<assets, listeners, mouse, canvas, event, calls>>

callVars == <<fn, args, result>>

(***************************************************************************)
(* Generic helpers.                                                        *)
(***************************************************************************)
Abs(n) == IF n < 0 THEN -n ELSE n

\* the value of a missing Map entry / a missing array element
Undefined == 0

Range(seq) == {seq[i] : i \in DOMAIN seq}

(***************************************************************************)
(* JavaScript Map: insertion ordered, a set of an existing key replaces    *)
(* the value and keeps the entry's position.                               *)
(***************************************************************************)
MapHas(m, k) == \E i \in DOMAIN m : m[i].key = k

MapGet(m, k) ==
    IF MapHas(m, k) THEN m[CHOOSE i \in DOMAIN m : m[i].key = k].val
    ELSE Undefined

\* new Map(entries): the keys in the order of their first occurrence, each
\* with the value of its last occurrence
NewMap(entries) ==
    LET first == SelectSeq([i \in DOMAIN entries |-> i],
                           LAMBDA i : \A j \in 1..(i - 1) :
                                          entries[j].key # entries[i].key)
        last(k) == CHOOSE i \in DOMAIN entries :
                       /\ entries[i].key = k
                       /\ \A j \in (i + 1)..Len(entries) : entries[j].key # k
    IN  [n \in DOMAIN first |->
            [key |-> entries[first[n]].key,
             val |-> entries[last(entries[first[n]].key)].val]]

\* Array.from(map.values())
MapValues(m) == [i \in DOMAIN m |-> m[i].val]

MapKeys(m) == [i \in DOMAIN m |-> m[i].key]

(***************************************************************************)
(* Strings: number formatting, comparison, sort and join.                  *)
(***************************************************************************)
RECURSIVE Digits(_)
Digits(n) ==
    IF n < 10 THEN <<48 + n>> ELSE Digits(n \div 10) \o <<48 + (n % 10)>>

\* `${n}` for an integer n ('-' is code unit 45; -0 prints as "0")
NumberToString(n) == IF n < 0 THEN <<45>> \o Digits(-n) ELSE Digits(n)

\* the coordinate printed without its signs
CoordToStringAbs(c) ==
    Digits(IF c.q < 0 THEN -c.q ELSE c.q) \o <<44>>
        \o Digits(IF c.r < 0 THEN -c.r ELSE c.r) \o <<44>>
        \o Digits(IF c.s < 0 THEN -c.s ELSE c.s)

\* `${q},${r},${s}` (',' is code unit 44)
CoordToString(c) ==
    NumberToString(c.q) \o <<44>> \o NumberToString(c.r) \o <<44>>
        \o NumberToString(c.s)

RECURSIVE StringLess(_, _)
\* a < b for strings: by code units, a proper prefix first
StringLess(a, b) ==
    IF b = <<>> THEN FALSE
    ELSE IF a = <<>> THEN TRUE
    ELSE IF Head(a) # Head(b) THEN Head(a) < Head(b)
    ELSE StringLess(Tail(a), Tail(b))

RECURSIVE InsertSorted(_, _)
InsertSorted(x, sorted) ==
    IF sorted = <<>> THEN <<x>>
    ELSE IF StringLess(x, Head(sorted)) THEN <<x>> \o sorted
    ELSE <<Head(sorted)>> \o InsertSorted(x, Tail(sorted))

RECURSIVE SortStrings(_)
\* Array.prototype.sort() without a comparator, on strings
SortStrings(strs) ==
    IF strs = <<>> THEN <<>>
    ELSE InsertSorted(strs[Len(strs)], SortStrings(SubSeq(strs, 1, Len(strs) - 1)))

RECURSIVE Join(_, _)
\* Array.prototype.join(sep)
Join(strs, sep) ==
    IF strs = <<>> THEN <<>>
    ELSE IF Len(strs) = 1 THEN strs[1]
    ELSE strs[1] \o sep \o Join(Tail(strs), sep)

\* getCoordHash without its sort
getCoordHashUnsorted(coords) ==
    Join([i \in DOMAIN coords |-> CoordToString(coords[i])], <<124>>)

\* BoardGame.getCoordHash ('|' is code unit 124)
getCoordHash(coords) ==
    Join(SortStrings([i \in DOMAIN coords |-> CoordToString(coords[i])]), <<124>>)

(***************************************************************************)
(* hex.ts                                                                  *)
(***************************************************************************)
\* Fractional numbers are the binary fractions n / Scale, held as the integer
\* n; on them the float arithmetic of cubeRound is exact.
Scale == 2 ^ FracBits

\* a rounding that always moves up to the next integer
MathRoundUp(n) == (n \div Scale) + 1

\* Math.round: the nearest integer, a half rounded up (towards +Infinity)
MathRound(n) == (2 * n + Scale) \div (2 * Scale)

\* cubeRound with >= in place of >
cubeRoundGe(q, r, s) ==
    LET q_rounded == MathRound(q)
        r_rounded == MathRound(r)
        s_rounded == MathRound(s)
        q_diff == Abs(q_rounded * Scale - q)
        r_diff == Abs(r_rounded * Scale - r)
        s_diff == Abs(s_rounded * Scale - s)
    IN  IF q_diff >= r_diff /\ q_diff >= s_diff
        THEN [q |-> -r_rounded - s_rounded, r |-> r_rounded, s |-> s_rounded]
        ELSE IF r_diff >= s_diff
        THEN [q |-> q_rounded, r |-> -q_rounded - s_rounded, s |-> s_rounded]
        ELSE [q |-> q_rounded, r |-> r_rounded, s |-> -q_rounded - r_rounded]

\* cubeRound({q, r, s}), the arguments in units of 1 / Scale
cubeRound(q, r, s) ==
    LET q_rounded == MathRound(q)
        r_rounded == MathRound(r)
        s_rounded == MathRound(s)
        q_diff == Abs(q_rounded * Scale - q)
        r_diff == Abs(r_rounded * Scale - r)
        s_diff == Abs(s_rounded * Scale - s)
    IN  IF q_diff > r_diff /\ q_diff > s_diff
        THEN [q |-> -r_rounded - s_rounded, r |-> r_rounded, s |-> s_rounded]
        ELSE IF r_diff > s_diff
        THEN [q |-> q_rounded, r |-> -q_rounded - s_rounded, s |-> s_rounded]
        ELSE [q |-> q_rounded, r |-> r_rounded, s |-> -q_rounded - r_rounded]

vertexDirections ==
    <<"north", "northEast", "southEast", "south", "southWest", "northWest">>

edgeDirections ==
    <<"northEast", "east", "southEast", "southWest", "west", "northWest">>

EdgeDirection == Range(edgeDirections)
VertexDirection == Range(vertexDirections)

Coord(q, r, s) == [q |-> q, r |-> r, s |-> s]

\* the table with a wrong sign in southEast
CUBE_DIRECTION_VECTORS_Typo ==
    [d \in EdgeDirection |->
        CASE d = "northEast" -> [q |-> 1, r |-> -1, s |-> 0]
          [] d = "east"      -> [q |-> 1, r |-> 0, s |-> -1]
          [] d = "southEast" -> [q |-> 0, r |-> 1, s |-> 1]
          [] d = "southWest" -> [q |-> -1, r |-> 1, s |-> 0]
          [] d = "west"      -> [q |-> -1, r |-> 0, s |-> 1]
          [] d = "northWest" -> [q |-> 0, r |-> -1, s |-> 1]]

\* the table with west given the vector of southWest
CUBE_DIRECTION_VECTORS_Dup ==
    [d \in EdgeDirection |->
        CASE d = "northEast" -> [q |-> 1, r |-> -1, s |-> 0]
          [] d = "east"      -> [q |-> 1, r |-> 0, s |-> -1]
          [] d = "southEast" -> [q |-> 0, r |-> 1, s |-> -1]
          [] d = "southWest" -> [q |-> -1, r |-> 1, s |-> 0]
          [] d = "west"      -> [q |-> -1, r |-> 1, s |-> 0]
          [] d = "northWest" -> [q |-> 0, r |-> -1, s |-> 1]]

\* the table with the vectors of northEast and east exchanged
CUBE_DIRECTION_VECTORS_Swapped ==
    [d \in EdgeDirection |->
        CASE d = "northEast" -> [q |-> 1, r |-> 0, s |-> -1]
          [] d = "east"      -> [q |-> 1, r |-> -1, s |-> 0]
          [] d = "southEast" -> [q |-> 0, r |-> 1, s |-> -1]
          [] d = "southWest" -> [q |-> -1, r |-> 1, s |-> 0]
          [] d = "west"      -> [q |-> -1, r |-> 0, s |-> 1]
          [] d = "northWest" -> [q |-> 0, r |-> -1, s |-> 1]]

CUBE_DIRECTION_VECTORS ==
    [d \in EdgeDirection |->
        CASE d = "northEast" -> Coord(1, -1, 0)
          [] d = "east"      -> Coord(1, 0, -1)
          [] d = "southEast" -> Coord(0, 1, -1)
          [] d = "southWest" -> Coord(-1, 1, 0)
          [] d = "west"      -> Coord(-1, 0, 1)
          [] d = "northWest" -> Coord(0, -1, 1)]

coordinatesAreEqual(a, b) == a.q = b.q /\ a.r = b.r /\ a.s = b.s

\* verticiesAreEqual: a.every((a_coord) => b.some((b_coord) => ...))
verticiesAreEqual(a, b) ==
    \A i \in DOMAIN a : \E j \in DOMAIN b : coordinatesAreEqual(a[i], b[j])

\* edgesAreEqual: the same test
edgesAreEqual(a, b) ==
    \A i \in DOMAIN a : \E j \in DOMAIN b : coordinatesAreEqual(a[i], b[j])

\* PointyHexTile.getNeighbourCoords, of the tile at cubeCoords
getNeighbourCoords(cubeCoords, direction) ==
    Coord(cubeCoords.q + CUBE_DIRECTION_VECTORS[direction].q,
          cubeCoords.r + CUBE_DIRECTION_VECTORS[direction].r,
          cubeCoords.s + CUBE_DIRECTION_VECTORS[direction].s)

\* the table with southWest given the edges of south
vertexToEdgeNeighboursSouth ==
    [d \in VertexDirection |->
        CASE d = "north"     -> <<"northWest", "northEast">>
          [] d = "northEast" -> <<"northEast", "east">>
          [] d = "southEast" -> <<"east", "southEast">>
          [] d = "south"     -> <<"southEast", "southWest">>
          [] d = "southWest" -> <<"southEast", "southWest">>
          [] d = "northWest" -> <<"west", "northWest">>]

vertexToEdgeNeighbours ==
    [d \in VertexDirection |->
        CASE d = "north"     -> <<"northWest", "northEast">>
          [] d = "northEast" -> <<"northEast", "east">>
          [] d = "southEast" -> <<"east", "southEast">>
          [] d = "south"     -> <<"southEast", "southWest">>
          [] d = "southWest" -> <<"southWest", "west">>
          [] d = "northWest" -> <<"west", "northWest">>]

\* PointyHexTile.getVertexCoords
getVertexCoords(cubeCoords, direction) ==
    <<cubeCoords,
      getNeighbourCoords(cubeCoords, vertexToEdgeNeighbours[direction][1]),
      getNeighbourCoords(cubeCoords, vertexToEdgeNeighbours[direction][2])>>

\* PointyHexTile.getEdgeCoords
getEdgeCoords(cubeCoords, direction) ==
    <<cubeCoords, getNeighbourCoords(cubeCoords, direction)>>

\* isNeighbour with a loop that stops one direction early
isNeighbourFive(cubeCoords, other) ==
    \E i \in 1..5 :
        coordinatesAreEqual(getNeighbourCoords(cubeCoords, edgeDirections[i]), other)

\* PointyHexTile.isNeighbour, of the tile at cubeCoords
isNeighbour(cubeCoords, other) ==
    \E i \in DOMAIN edgeDirections :
        coordinatesAreEqual(getNeighbourCoords(cubeCoords, edgeDirections[i]), other)

\* vectorToDirection: the first entry of CUBE_DIRECTION_VECTORS that matches,
\* "undefined" when none does
vectorToDirection(from, to) ==
    LET matches == {i \in DOMAIN edgeDirections :
                       LET vector == CUBE_DIRECTION_VECTORS[edgeDirections[i]]
                       IN  /\ vector.q = to.q - from.q
                           /\ vector.r = to.r - from.r
                           /\ vector.s = to.s - from.s}
    IN  IF matches = {} THEN "undefined"
        ELSE edgeDirections[CHOOSE i \in matches : \A j \in matches : i <= j]

(***************************************************************************)
(* shapes.ts.  A number x of the geometry is held as the integer x * Unit; *)
(* sums and differences are exact, every product and quotient is rounded   *)
(* to the nearest number held, as float arithmetic rounds to the nearest   *)
(* float.  Angles are held in degrees.                                     *)
(***************************************************************************)
Unit == 2 ^ GeoBits

\* the number n, an integer
Fix(n) == n * Unit

\* the integer nearest to n / d, for d # 0
RoundDiv(n, d) ==
    IF d > 0 THEN (2 * n + d) \div (2 * d) ELSE (-(2 * n) - d) \div (-(2 * d))

\* a * b
Times(a, b) == RoundDiv(a * b, Unit)

\* a / b, for b # 0
Over(a, b) == RoundDiv(a * Unit, b)

\* Math.sqrt(3)
Sqrt3 ==
    CHOOSE n \in 0..(2 * Unit) :
        /\ (2 * n - 1) * (2 * n - 1) < 12 * Unit * Unit
        /\ 12 * Unit * Unit < (2 * n + 1) * (2 * n + 1)

\* Math.cos(Math.PI / 6), the number nearest to the square root of 3/4
Cos30 ==
    CHOOSE n \in 0..Unit :
        /\ (2 * n - 1) * (2 * n - 1) < 3 * Unit * Unit
        /\ 3 * Unit * Unit < (2 * n + 1) * (2 * n + 1)

\* Math.cos of an angle of deg degrees, a multiple of 30
MathCos(deg) ==
    LET d == deg % 360
    IN  CASE d = 0            -> Unit
          [] d \in {30, 330}  -> Cos30
          [] d \in {60, 300}  -> Unit \div 2
          [] d \in {90, 270}  -> 0
          [] d \in {120, 240} -> -(Unit \div 2)
          [] d \in {150, 210} -> -Cos30
          [] d = 180          -> -Unit

\* Math.sin
MathSin(deg) == MathCos(deg + 270)

\* new Circle(x, y, radius, fill)
Circle(x, y, r) == [x |-> x, y |-> y, radius |-> r]

\* Circle.contains
CircleContains(shape, x, y) ==
    LET dx == x - shape.x
        dy == y - shape.y
    IN  Times(dx, dx) + Times(dy, dy) <= Times(shape.radius, shape.radius)

\* the marker of a NaN among the angles
NaN == -1

\* new Rectangle(x, y, width, height, fill, rotation)
Rectangle(x, y, w, h, rotation) ==
    [x |-> x, y |-> y, width |-> w, height |-> h, rotation |-> rotation]

\* Rectangle.contains; with a rotation of NaN both comparisons are false
RectangleContains(shape, x, y) ==
    LET centerX == shape.x + Over(shape.width, Fix(2))
        centerY == shape.y + Over(shape.height, Fix(2))
        translatedX == x - centerX
        translatedY == y - centerY
        rotatedX == Times(translatedX, MathCos(-shape.rotation))
                        - Times(translatedY, MathSin(-shape.rotation))
        rotatedY == Times(translatedX, MathSin(-shape.rotation))
                        + Times(translatedY, MathCos(-shape.rotation))
    IN  /\ shape.rotation # NaN
        /\ Abs(rotatedX) <= Over(shape.width, Fix(2))
        /\ Abs(rotatedY) <= Over(shape.height, Fix(2))

\* new PointyHexagon(x, y, size, fill, stroke)
PointyHexagon(x, y, size) == [x |-> x, y |-> y, size |-> size]

\* PointyHexagon.isPointInTriangle.  A division by zero yields NaN or an
\* infinity, and then one of the three comparisons is false: w1 >= 0 and
\* w2 >= 0 leave only +Infinity, whose sum with anything is not <= 1.
isPointInTriangle(px, py, ax, ay, bx, by, cx, cy) ==
    LET num == Times(ax, cy - ay) + Times(py - ay, cx - ax) - Times(px, cy - ay)
        den == Times(by - ay, cx - ax) - Times(bx - ax, cy - ay)
    IN  IF den = 0 \/ cy - ay = 0 THEN FALSE
        ELSE LET w1 == Over(num, den)
                 w2 == Over(py - ay - Times(w1, by - ay), cy - ay)
             IN  w1 >= 0 /\ w2 >= 0 /\ w1 + w2 <= Unit

\* PointyHexagon.contains with a loop that stops one side early
PointyHexagonContainsFive(shape, x, y) ==
    \E side \in 0..4 :
        LET angle1 == 60 * side + 30
            angle2 == 60 * (side + 1) + 30
            vertex1X == shape.x + Times(shape.size, MathCos(angle1))
            vertex1Y == shape.y + Times(shape.size, MathSin(angle1))
            vertex2X == shape.x + Times(shape.size, MathCos(angle2))
            vertex2Y == shape.y + Times(shape.size, MathSin(angle2))
        IN  isPointInTriangle(x, y, shape.x, shape.y, vertex1X, vertex1Y,
                              vertex2X, vertex2Y)

\* PointyHexagon.contains
PointyHexagonContains(shape, x, y) ==
    \E side \in 0..5 :
        LET angle1 == 60 * side + 30
            angle2 == 60 * (side + 1) + 30
            vertex1X == shape.x + Times(shape.size, MathCos(angle1))
            vertex1Y == shape.y + Times(shape.size, MathSin(angle1))
            vertex2X == shape.x + Times(shape.size, MathCos(angle2))
            vertex2Y == shape.y + Times(shape.size, MathSin(angle2))
        IN  isPointInTriangle(x, y, shape.x, shape.y, vertex1X, vertex1Y,
                              vertex2X, vertex2Y)

\* PointyHexTile.get2DCoords (hex.ts), of the tile at cubeCoords; a tile's
\* size is a whole number of pixels
get2DCoords(cubeCoords, size) ==
    <<Times(Fix(size), Times(Sqrt3, Fix(cubeCoords.q))
                           + Times(Over(Sqrt3, Fix(2)), Fix(cubeCoords.r))),
      Times(Fix(size), Times(Over(Fix(3), Fix(2)), Fix(cubeCoords.r)))>>

(***************************************************************************)
(* canvas.ts: tiles, roads and settlements.                                *)
(***************************************************************************)
resources == <<"wood", "brick", "sheep", "wheat", "ore", "desert">>

\* Math.random: a pseudo random generator whose hidden state is rng; the
\* value returned is rng / 64, the call moves the state on
NextRandom(x) == (13 * x + 7) % 64

\* ResourceTile.getRandomResource: resources[Math.floor(Math.random() * 6)]
getRandomResource(x) == resources[((x * Len(resources)) \div 64) + 1]

\* ResourceTile.getRandomNumber: Math.floor(Math.random() * 11) + 2
getRandomNumber(x) == ((x * 11) \div 64) + 2

\* new ResourceTile(q, r, s, size), Math.random being in state x
ResourceTile(q, r, s, size, x) ==
    [coords |-> Coord(q, r, s), size |-> size, kind |-> "resource",
     resource |-> getRandomResource(x),
     number |-> getRandomNumber(NextRandom(x)),
     isMouseOver |-> FALSE,
     shape |-> PointyHexagon(get2DCoords(Coord(q, r, s), size)[1],
                             get2DCoords(Coord(q, r, s), size)[2], Fix(size))]

\* new PlaceholderTile(q, r, s, size)
PlaceholderTile(q, r, s, size) ==
    [coords |-> Coord(q, r, s), size |-> size, kind |-> "placeholder"]

ROAD_WIDTH == 10

NoError == "none"
RoadError == "Error: Road tiles must be neighbours"
SettlementError == "Error: Settlement tiles must be neighbours"
\* reading a property of undefined
TypeError == "TypeError: undefined is not an object"

angleMap ==
    [d \in EdgeDirection |->
        CASE d = "northEast" -> 30
          [] d = "east"      -> 90
          [] d = "southEast" -> 150
          [] d = "southWest" -> 210
          [] d = "west"      -> 270
          [] d = "northWest" -> 330]

\* the coordinates of the tiles of a road or settlement:
\* x.tiles.map((tile) => tile.coords)
TileCoords(heap, tiles) == [i \in DOMAIN tiles |-> heap[tiles[i]].coords]

\* get angle, in degrees: angleMap[undefined] is undefined and its product NaN
RoadAngle(heap, tiles) ==
    LET direction == vectorToDirection(heap[tiles[1]].coords, heap[tiles[2]].coords)
    IN  IF direction \in EdgeDirection THEN angleMap[direction] ELSE NaN

\* new Road(tiles), the tiles being references into heap: the error thrown
\* ("none" if none) and the object constructed
Road(heap, tiles) ==
    IF ~isNeighbour(heap[tiles[1]].coords, heap[tiles[2]].coords)
    THEN [error |-> RoadError, tiles |-> <<>>, isMouseOver |-> FALSE,
          shape |-> Rectangle(0, 0, 0, 0, 0)]
    ELSE LET TILE_SIZE == Fix(heap[tiles[1]].size)
         IN  [error |-> NoError, tiles |-> tiles, isMouseOver |-> FALSE,
              shape |-> Rectangle(-Over(TILE_SIZE, Fix(2)),
                                  -Over(Fix(ROAD_WIDTH), Fix(2)),
                                  TILE_SIZE, Fix(ROAD_WIDTH),
                                  RoadAngle(heap, tiles))]

\* Road.get2DCoords: the midpoint of the two tiles, where Road.draw
\* translates to
RoadGet2DCoords(heap, tiles) ==
    LET xy == [i \in 1..2 |-> get2DCoords(heap[tiles[i]].coords, heap[tiles[i]].size)]
    IN  <<Over(xy[1][1] + xy[2][1], Fix(2)), Over(xy[1][2] + xy[2][2], Fix(2))>>

\* Settlement.get2DCoords: the centroid of the three tiles
SettlementGet2DCoords(heap, tiles) ==
    LET xy == [i \in 1..3 |-> get2DCoords(heap[tiles[i]].coords, heap[tiles[i]].size)]
    IN  <<Over(xy[1][1] + xy[2][1] + xy[3][1], Fix(3)),
          Over(xy[1][2] + xy[2][2] + xy[3][2], Fix(3))>>

\* new Settlement(tiles) with a check of the first pair only
SettlementFirstPair(heap, tiles) ==
    IF ~(tiles # <<>> =>
            isNeighbour(heap[tiles[1]].coords,
                        heap[tiles[(1 % Len(tiles)) + 1]].coords))
    THEN [error |-> SettlementError, tiles |-> <<>>, isMouseOver |-> FALSE,
          shape |-> Circle(0, 0, 0)]
    ELSE IF Len(tiles) < 3
    THEN [error |-> TypeError, tiles |-> <<>>, isMouseOver |-> FALSE,
          shape |-> Circle(0, 0, 0)]
    ELSE [error |-> NoError, tiles |-> tiles, isMouseOver |-> FALSE,
          shape |-> Circle(SettlementGet2DCoords(heap, tiles)[1],
                           SettlementGet2DCoords(heap, tiles)[2],
                           Over(Fix(heap[tiles[1]].size), Fix(6)))]

\* new Settlement(tiles): the neighbour check over arr[(i + 1) % arr.length],
\* then get2DCoords, which reads three tiles
Settlement(heap, tiles) ==
    IF ~(\A i \in DOMAIN tiles :
            isNeighbour(heap[tiles[i]].coords,
                        heap[tiles[(i % Len(tiles)) + 1]].coords))
    THEN [error |-> SettlementError, tiles |-> <<>>, isMouseOver |-> FALSE,
          shape |-> Circle(0, 0, 0)]
    ELSE IF Len(tiles) < 3
    THEN [error |-> TypeError, tiles |-> <<>>, isMouseOver |-> FALSE,
          shape |-> Circle(0, 0, 0)]
    ELSE [error |-> NoError, tiles |-> tiles, isMouseOver |-> FALSE,
          shape |-> Circle(SettlementGet2DCoords(heap, tiles)[1],
                           SettlementGet2DCoords(heap, tiles)[2],
                           Over(Fix(heap[tiles[1]].size), Fix(6)))]

(***************************************************************************)
(* canvas.ts: BoardGame.                                                   *)
(***************************************************************************)
\* BoardGame.getTileAtCoords
getTileAtCoords(coords) == MapGet(tileCoordMap, getCoordHash(<<coords>>))

\* get resourceTiles without its filter
AllTilesOf(m, heap) == MapValues(m)

\* get resourceTiles, of a tile map m
ResourceTilesOf(m, heap) ==
    SelectSeq(MapValues(m), LAMBDA tile : heap[tile].kind = "resource")

resourceTiles == ResourceTilesOf(tileCoordMap, tileObjects)

\* set tiles(tiles)
TileEntries(heap) ==
    [i \in DOMAIN heap |-> [key |-> getCoordHash(<<heap[i].coords>>), val |-> i]]

\* the entries keyed by the first tile only
LocationEntriesFirstTile(heap, locations) ==
    [i \in DOMAIN locations |->
        [key |-> getCoordHash(<<heap[locations[i].tiles[1]].coords>>),
         val |-> locations[i]]]

\* set roads(roads) / set settlements(settlements): the entries given to new Map
LocationEntries(heap, locations) ==
    [i \in DOMAIN locations |->
        [key |-> getCoordHash(TileCoords(heap, locations[i].tiles)),
         val |-> locations[i]]]

\* setupCanvasScaling: this.tileSize = 0.07 * this.width
TileSizeOf(w) == (7 * w) \div 100

Widths == {100 * k : k \in 1..MaxWidthUnits}

\* private mouse: { x: number; y: number } | null = null
Null == [null |-> TRUE]

\* no listener is registered, no event has been handled, and
\* setupCanvasScaling has left the canvas blank
NoEvents ==
    /\ listeners = {}
    /\ mouse = Null
    /\ canvas = "blank"
    /\ event = "none"
    /\ calls = <<>>

Init ==
    /\ pc = "createGrid"
    /\ error = NoError
    /\ radius \in 1..MaxRadius
    /\ width \in Widths
    /\ tileSize = TileSizeOf(width)
    /\ rng \in 0..MaxSeed
    /\ loopR = -radius
    /\ loopQ = -radius
    /\ tileObjects = <<>>
    /\ tileCoordMap = <<>>
    /\ tileIdx = 1
    /\ dirIdx = 1
    /\ roads = <<>>
    /\ roadCoordMap = <<>>
    /\ settlements = <<>>
    /\ settlementCoordMap = <<>>
    /\ assets = "loading"
    /\ NoEvents
    /\ fn = "none"
    /\ args = <<>>
    /\ result = [done |-> FALSE]

\* createGrid: if (Math.abs(s) <= radius)
InGrid(q, r, s, rad) == Abs(s) <= rad

InOuterRingNoS(q, r, s, rad) == Abs(q) = rad \/ Abs(r) = rad

\* createGrid: the test for the outer ring
InOuterRing(q, r, s, rad) == Abs(q) = rad \/ Abs(r) = rad \/ Abs(s) = rad

\* createGrid: one iteration of the inner loop
CreateGridStep ==
    /\ pc = "createGrid"
    /\ LET q == loopQ
           r == loopR
           s == -q - r
           inGrid == InGrid(q, r, s, radius)
           outer == InOuterRing(q, r, s, radius)
       IN  /\ tileObjects' =
                IF ~inGrid THEN tileObjects
                ELSE IF outer
                THEN Append(tileObjects, PlaceholderTile(q, r, s, tileSize))
                ELSE Append(tileObjects, ResourceTile(q, r, s, tileSize, rng))
           /\ rng' = IF inGrid /\ ~outer THEN NextRandom(NextRandom(rng)) ELSE rng
    /\ IF loopQ < radius
       THEN loopQ' = loopQ + 1 /\ UNCHANGED <<loopR, pc>>
       ELSE IF loopR < radius
       THEN loopQ' = -radius /\ loopR' = loopR + 1 /\ UNCHANGED pc
       ELSE pc' = "setTiles" /\ UNCHANGED <<loopQ, loopR>>
    /\ UNCHANGED <<error, radius, width, tileSize, tileCoordMap, tileIdx, dirIdx,
                   roads, roadCoordMap, settlements, settlementCoordMap>>
    /\ UNCHANGED uiVars
    /\ UNCHANGED callVars

\* this.tiles = this.createGrid(), and the entry of createAllLocations
SetTiles ==
    /\ pc = "setTiles"
    /\ tileCoordMap' = NewMap(TileEntries(tileObjects))
    /\ roads' = <<>>
    /\ tileIdx' = 1
    /\ dirIdx' = 1
    /\ pc' = IF ResourceTilesOf(tileCoordMap', tileObjects) = <<>>
             THEN "setRoads" ELSE "roads"
    /\ UNCHANGED <<error, radius, width, tileSize, rng, loopR, loopQ, tileObjects,
                   roadCoordMap, settlements, settlementCoordMap>>
    /\ UNCHANGED uiVars
    /\ UNCHANGED callVars

\* the position of the nested loops after this iteration; done when the
\* outer loop is exhausted
NextPosition(done) ==
    IF dirIdx < 6
    THEN dirIdx' = dirIdx + 1 /\ UNCHANGED <<tileIdx, pc>>
    ELSE IF tileIdx < Len(resourceTiles)
    THEN dirIdx' = 1 /\ tileIdx' = tileIdx + 1 /\ UNCHANGED pc
    ELSE pc' = done /\ UNCHANGED <<tileIdx, dirIdx>>

\* createAllLocations: one iteration of the road loop's body
RoadStep ==
    /\ pc = "roads"
    /\ LET tile == resourceTiles[tileIdx]
           direction == edgeDirections[dirIdx]
           coords == getNeighbourCoords(tileObjects[tile].coords, direction)
           neighbour == getTileAtCoords(coords)
           road == Road(tileObjects, <<tile, neighbour>>)
       IN  IF neighbour = Undefined
           THEN /\ NextPosition("setRoads")
                /\ UNCHANGED <<roads, error>>
           ELSE IF road.error # NoError
           THEN /\ pc' = "failed"
                /\ error' = road.error
                /\ UNCHANGED <<roads, tileIdx, dirIdx>>
           ELSE /\ roads' =
                     IF ~MapHas(roadCoordMap,
                                getCoordHash(TileCoords(tileObjects, road.tiles)))
                     THEN Append(roads, road)
                     ELSE roads
                /\ NextPosition("setRoads")
                /\ UNCHANGED error
    /\ UNCHANGED <<radius, width, tileSize, rng, loopR, loopQ, tileObjects,
                   tileCoordMap, roadCoordMap, settlements, settlementCoordMap>>
    /\ UNCHANGED uiVars
    /\ UNCHANGED callVars

\* this.roads = roads, and the entry of the settlement loop
SetRoads ==
    /\ pc = "setRoads"
    /\ roadCoordMap' = NewMap(LocationEntries(tileObjects, roads))
    /\ settlements' = <<>>
    /\ tileIdx' = 1
    /\ dirIdx' = 1
    /\ pc' = IF resourceTiles = <<>> THEN "setSettlements" ELSE "settlements"
    /\ UNCHANGED <<error, radius, width, tileSize, rng, loopR, loopQ, tileObjects,
                   tileCoordMap, roads, settlementCoordMap>>
    /\ UNCHANGED uiVars
    /\ UNCHANGED callVars

\* coords.map((coord) => this.getTileAtCoords(coord))
\*       .filter((tile) => tile !== undefined)
ResolvedTiles(coords) ==
    SelectSeq([i \in DOMAIN coords |-> getTileAtCoords(coords[i])],
              LAMBDA tile : tile # Undefined)

\* createAllLocations: one iteration of the settlement loop's body
SettlementStep ==
    /\ pc = "settlements"
    /\ LET tile == resourceTiles[tileIdx]
           coords == getVertexCoords(tileObjects[tile].coords,
                                     vertexDirections[dirIdx])
           settlement == Settlement(tileObjects, ResolvedTiles(coords))
       IN  IF MapHas(settlementCoordMap, getCoordHash(coords))
           THEN /\ NextPosition("setSettlements")
                /\ UNCHANGED <<settlements, error>>
           ELSE IF settlement.error # NoError
           THEN /\ pc' = "failed"
                /\ error' = settlement.error
                /\ UNCHANGED <<settlements, tileIdx, dirIdx>>
           ELSE /\ settlements' = Append(settlements, settlement)
                /\ NextPosition("setSettlements")
                /\ UNCHANGED error
    /\ UNCHANGED <<radius, width, tileSize, rng, loopR, loopQ, tileObjects,
                   tileCoordMap, roads, roadCoordMap, settlementCoordMap>>
    /\ UNCHANGED uiVars
    /\ UNCHANGED callVars

\* this.settlements = settlements: the topology is built
SetSettlements ==
    /\ pc = "setSettlements"
    /\ settlementCoordMap' = NewMap(LocationEntries(tileObjects, settlements))
    /\ pc' = "ready"
    /\ UNCHANGED <<error, radius, width, tileSize, rng, loopR, loopQ, tileObjects,
                   tileCoordMap, tileIdx, dirIdx, roads, roadCoordMap, settlements>>
    /\ UNCHANGED uiVars
    /\ UNCHANGED callVars

\* the events listened to
Events == {"mousemove", "click", "mouseleave", "resize"}

\* initializeGame going on whether or not the constructor has come to it
InitializeGameAnyTime ==
    /\ assets = "loading"
    /\ assets' = "loaded"
    /\ listeners' = Events
    /\ canvas' = "board"
    /\ UNCHANGED <<mouse, event, calls>>
    /\ UNCHANGED buildVars
    /\ UNCHANGED callVars

\* initializeGame after await this.loadAssets(): the four addEventListener
\* calls and the first drawBoard
InitializeGame ==
    /\ pc = "ready"
    /\ assets = "loading"
    /\ assets' = "loaded"
    /\ listeners' = Events
    /\ canvas' = "board"
    /\ UNCHANGED <<mouse, event, calls>>
    /\ UNCHANGED buildVars
    /\ UNCHANGED callVars

\* img.onerror = reject: the promise awaited is rejected and initializeGame
\* never goes on
LoadAssetsRejected ==
    /\ pc = "ready"
    /\ assets = "loading"
    /\ assets' = "failed"
    /\ UNCHANGED <<listeners, mouse, canvas, event, calls>>
    /\ UNCHANGED buildVars
    /\ UNCHANGED callVars

\* the positions of the pointer, relative to the centre of the canvas, in
\* pixels: the centre, the north vertex of the centre tile of size 7 and a
\* point off the board
MousePoints == {<<0, 0>>, <<0, -7>>, <<500, 500>>}

\* get mouseListeners: [...this.roads, ...this.settlements,
\* ...this.resourceTiles]; roads and settlements by their place in the map,
\* tiles by reference
mouseListeners ==
    [i \in DOMAIN roadCoordMap |-> [kind |-> "road", ref |-> i]]
        \o [i \in DOMAIN settlementCoordMap |-> [kind |-> "settlement", ref |-> i]]
        \o [i \in DOMAIN resourceTiles |-> [kind |-> "tile", ref |-> resourceTiles[i]]]

\* the object a mouse listener is
ListenerObject(l) ==
    CASE l.kind = "road"       -> roadCoordMap[l.ref].val
      [] l.kind = "settlement" -> settlementCoordMap[l.ref].val
      [] l.kind = "tile"       -> tileObjects[l.ref]

\* mouseListener.shape.contains(x, y)
ShapeContains(l, x, y) ==
    CASE l.kind = "road"       -> RectangleContains(ListenerObject(l).shape, x, y)
      [] l.kind = "settlement" -> CircleContains(ListenerObject(l).shape, x, y)
      [] l.kind = "tile"       -> PointyHexagonContains(ListenerObject(l).shape, x, y)

\* the callbacks a listener dispatched: those of the list that are not "none"
Dispatched(all) == SelectSeq(all, LAMBDA c : c.callback # "none")

\* the mousemove listener calling onMouseIn on every move over an element
MouseMoveLevel ==
    /\ pc = "ready"
    /\ "mousemove" \in listeners
    /\ \E p \in MousePoints :
          LET x == Fix(p[1])
              y == Fix(p[2])
          IN  /\ mouse' = [null |-> FALSE, x |-> x, y |-> y]
              /\ roadCoordMap' =
                    [i \in DOMAIN roadCoordMap |->
                        [roadCoordMap[i] EXCEPT !.val.isMouseOver =
                            RectangleContains(roadCoordMap[i].val.shape, x, y)]]
              /\ settlementCoordMap' =
                    [i \in DOMAIN settlementCoordMap |->
                        [settlementCoordMap[i] EXCEPT !.val.isMouseOver =
                            CircleContains(settlementCoordMap[i].val.shape, x, y)]]
              /\ tileObjects' =
                    LET tiles == Range(resourceTiles)
                    IN  [i \in DOMAIN tileObjects |->
                            IF i \in tiles
                            THEN [tileObjects[i] EXCEPT !.isMouseOver =
                                     PointyHexagonContains(tileObjects[i].shape, x, y)]
                            ELSE tileObjects[i]]
              /\ calls' =
                    LET all == mouseListeners
                    IN  Dispatched(
                            [i \in DOMAIN all |->
                                LET isOver == ShapeContains(all[i], x, y)
                                    was == ListenerObject(all[i]).isMouseOver
                                IN  [listener |-> all[i],
                                     callback |->
                                         IF isOver THEN "onMouseIn"
                                         ELSE IF ~isOver /\ was THEN "onMouseOut"
                                         ELSE "none"]])
    /\ canvas' = "board"
    /\ event' = "mousemove"
    /\ UNCHANGED <<pc, error, radius, width, tileSize, rng, loopR, loopQ,
                   tileCoordMap, tileIdx, dirIdx, roads, settlements, assets,
                   listeners>>
    /\ UNCHANGED callVars

\* the mousemove listener
MouseMove ==
    /\ pc = "ready"
    /\ "mousemove" \in listeners
    /\ \E p \in MousePoints :
          LET x == Fix(p[1])
              y == Fix(p[2])
          IN  /\ mouse' = [null |-> FALSE, x |-> x, y |-> y]
              /\ roadCoordMap' =
                    [i \in DOMAIN roadCoordMap |->
                        [roadCoordMap[i] EXCEPT !.val.isMouseOver =
                            RectangleContains(roadCoordMap[i].val.shape, x, y)]]
              /\ settlementCoordMap' =
                    [i \in DOMAIN settlementCoordMap |->
                        [settlementCoordMap[i] EXCEPT !.val.isMouseOver =
                            CircleContains(settlementCoordMap[i].val.shape, x, y)]]
              /\ tileObjects' =
                    LET tiles == Range(resourceTiles)
                    IN  [i \in DOMAIN tileObjects |->
                            IF i \in tiles
                            THEN [tileObjects[i] EXCEPT !.isMouseOver =
                                     PointyHexagonContains(tileObjects[i].shape, x, y)]
                            ELSE tileObjects[i]]
              /\ calls' =
                    LET all == mouseListeners
                    IN  Dispatched(
                            [i \in DOMAIN all |->
                                LET isOver == ShapeContains(all[i], x, y)
                                    was == ListenerObject(all[i]).isMouseOver
                                IN  [listener |-> all[i],
                                     callback |->
                                         IF isOver /\ ~was THEN "onMouseIn"
                                         ELSE IF ~isOver /\ was THEN "onMouseOut"
                                         ELSE "none"]])
    /\ canvas' = "board"
    /\ event' = "mousemove"
    /\ UNCHANGED <<pc, error, radius, width, tileSize, rng, loopR, loopQ,
                   tileCoordMap, tileIdx, dirIdx, roads, settlements, assets,
                   listeners>>
    /\ UNCHANGED callVars

\* the click listener stopping at the first element hit
ClickFirstHit ==
    /\ pc = "ready"
    /\ "click" \in listeners
    /\ calls' =
          LET all == mouseListeners
              hit == IF mouse = Null THEN <<>>
                     ELSE Dispatched(
                              [i \in DOMAIN all |->
                                  [listener |-> all[i],
                                   callback |->
                                       IF ShapeContains(all[i], mouse.x, mouse.y)
                                       THEN "onClick" ELSE "none"]])
          IN  IF hit = <<>> THEN <<>> ELSE <<hit[1]>>
    /\ event' = "click"
    /\ UNCHANGED <<assets, listeners, mouse, canvas>>
    /\ UNCHANGED buildVars
    /\ UNCHANGED callVars

\* the click listener
Click ==
    /\ pc = "ready"
    /\ "click" \in listeners
    /\ calls' =
          LET all == mouseListeners
          IN  IF mouse = Null THEN <<>>
              ELSE Dispatched(
                       [i \in DOMAIN all |->
                           [listener |-> all[i],
                            callback |->
                                IF ShapeContains(all[i], mouse.x, mouse.y)
                                THEN "onClick" ELSE "none"]])
    /\ event' = "click"
    /\ UNCHANGED <<assets, listeners, mouse, canvas>>
    /\ UNCHANGED buildVars
    /\ UNCHANGED callVars

\* the mouseleave listener clearing the hover flags and calling onMouseOut
MouseLeaveClearing ==
    /\ pc = "ready"
    /\ "mouseleave" \in listeners
    /\ mouse' = Null
    /\ roadCoordMap' =
          [i \in DOMAIN roadCoordMap |->
              [roadCoordMap[i] EXCEPT !.val.isMouseOver = FALSE]]
    /\ settlementCoordMap' =
          [i \in DOMAIN settlementCoordMap |->
              [settlementCoordMap[i] EXCEPT !.val.isMouseOver = FALSE]]
    /\ tileObjects' =
          [i \in DOMAIN tileObjects |->
              IF tileObjects[i].kind = "resource"
              THEN [tileObjects[i] EXCEPT !.isMouseOver = FALSE]
              ELSE tileObjects[i]]
    /\ calls' =
          LET all == mouseListeners
          IN  Dispatched(
                  [i \in DOMAIN all |->
                      [listener |-> all[i],
                       callback |->
                           IF ListenerObject(all[i]).isMouseOver
                           THEN "onMouseOut" ELSE "none"]])
    /\ canvas' = "board"
    /\ event' = "mouseleave"
    /\ UNCHANGED <<pc, error, radius, width, tileSize, rng, loopR, loopQ,
                   tileCoordMap, tileIdx, dirIdx, roads, settlements, assets,
                   listeners>>
    /\ UNCHANGED callVars

\* the mouseleave listener
MouseLeave ==
    /\ pc = "ready"
    /\ "mouseleave" \in listeners
    /\ mouse' = Null
    /\ canvas' = "board"
    /\ event' = "mouseleave"
    /\ calls' = <<>>
    /\ UNCHANGED <<assets, listeners>>
    /\ UNCHANGED buildVars
    /\ UNCHANGED callVars

\* the resize listener with an updateAllTileSize over the resource tiles only
ResizeResourceTiles ==
    /\ pc = "ready"
    /\ "resize" \in listeners
    /\ \E w \in Widths :
          /\ width' = w
          /\ tileSize' = TileSizeOf(w)
          /\ tileObjects' =
                LET tiles == Range(resourceTiles)
                IN  [i \in DOMAIN tileObjects |->
                        IF i \in tiles
                        THEN [tileObjects[i] EXCEPT !.size = TileSizeOf(w)]
                        ELSE tileObjects[i]]
    /\ canvas' = "board"
    /\ event' = "resize"
    /\ calls' = <<>>
    /\ UNCHANGED <<pc, error, radius, rng, loopR, loopQ, tileCoordMap, tileIdx,
                   dirIdx, roads, roadCoordMap, settlements, settlementCoordMap,
                   assets, listeners, mouse>>
    /\ UNCHANGED callVars

\* the resize listener: setupCanvasScaling, updateAllTileSize, drawBoard
Resize ==
    /\ pc = "ready"
    /\ "resize" \in listeners
    /\ \E w \in Widths :
          /\ width' = w
          /\ tileSize' = TileSizeOf(w)
          /\ tileObjects' =
                LET tiles == Range(MapValues(tileCoordMap))
                IN  [i \in DOMAIN tileObjects |->
                        IF i \in tiles
                        THEN [tileObjects[i] EXCEPT !.size = TileSizeOf(w)]
                        ELSE tileObjects[i]]
    /\ canvas' = "board"
    /\ event' = "resize"
    /\ calls' = <<>>
    /\ UNCHANGED <<pc, error, radius, rng, loopR, loopQ, tileCoordMap, tileIdx,
                   dirIdx, roads, roadCoordMap, settlements, settlementCoordMap,
                   assets, listeners, mouse>>
    /\ UNCHANGED callVars

Next ==
    \/ CreateGridStep
    \/ SetTiles
    \/ RoadStep
    \/ SetRoads
    \/ SettlementStep
    \/ SetSettlements
    \/ InitializeGame
    \/ LoadAssetsRejected
    \/ MouseMove
    \/ Click
    \/ MouseLeave
    \/ Resize

Spec == Init /\ [][Next]_vars

(***************************************************************************)
(* The board after the build.                                              *)
(***************************************************************************)
\* the topology is built: createAllLocations has returned, and no event has
\* been handled yet
Built == pc = "ready" /\ event = "none"

\* the tile map is set: createGrid has returned and set tiles has run
TilesPlaced == pc \notin {"createGrid", "setTiles"}

\* the tiles of the tile map, as references
PlacedTiles == Range(MapValues(tileCoordMap))

PlacedResourceTiles == {t \in PlacedTiles : tileObjects[t].kind = "resource"}

\* the tiles of the tile map at coordinate c
PlacedAt(c) == {t \in PlacedTiles : tileObjects[t].coords = c}

\* the pairs {T, neighbour(T, d)} of a resource tile T and the tile at its
\* neighbour coordinate in an edge direction d
BoardEdges ==
    {{t, n} : <<t, n>> \in
        {<<t, n>> \in PlacedResourceTiles \X PlacedTiles :
            \E d \in EdgeDirection :
                tileObjects[n].coords = getNeighbourCoords(tileObjects[t].coords, d)}}

\* the vertex triads of the resource tiles all of whose coordinates have a tile
BoardVertices ==
    {tr \in {UNION {PlacedAt(c) : c \in Range(getVertexCoords(tileObjects[t].coords, v))} :
                <<t, v>> \in PlacedResourceTiles \X VertexDirection} :
        Cardinality(tr) = 3}

\* C1: after the board build the road map holds, for every resource tile T
\* and every edge direction d whose neighbour coordinate has a tile, exactly
\* one Road with the tile set {T, neighbour(T, d)}, and it has as many entries
\* as there are such unordered pairs.
C1_EveryEdgeExactlyOneRoad ==
    Built =>
        /\ \A e \in BoardEdges :
              Cardinality({i \in DOMAIN roadCoordMap :
                              Range(roadCoordMap[i].val.tiles) = e}) = 1
        /\ Len(roadCoordMap) = Cardinality(BoardEdges)

\* an edge found from both of its endpoints: the array of candidates is longer
\* than the map
C1_Witness == Built /\ Len(roads) > Len(roadCoordMap) /\ roadCoordMap # <<>>

\* C2: after the board build the settlement map holds exactly one Settlement
\* for every vertex triad of a resource tile whose three coordinates have
\* tiles, and it has as many entries as there are distinct triads.
C2_EveryVertexExactlyOneSettlement ==
    Built =>
        /\ \A tr \in BoardVertices :
              Cardinality({i \in DOMAIN settlementCoordMap :
                              Range(settlementCoordMap[i].val.tiles) = tr}) = 1
        /\ Len(settlementCoordMap) = Cardinality(BoardVertices)

\* a vertex enumerated by more than one tile
C2_Witness ==
    Built /\ Len(settlements) > Len(settlementCoordMap) /\ settlementCoordMap # <<>>

\* the tiles of the roads and of the settlements in the maps
LocationTiles(m) == UNION {Range(m[i].val.tiles) : i \in DOMAIN m}

\* C3 (as claimed): no Road and no Settlement has a PlaceholderTile among its
\* tiles.
C3_OnlyResourceTiles ==
    Built =>
        \A t \in LocationTiles(roadCoordMap) \cup LocationTiles(settlementCoordMap) :
            tileObjects[t].kind = "resource"

\* C3 (amended): the first tile of every Road and of every Settlement is a
\* ResourceTile (the tile that enumerated it); once the board is built, every
\* placed tile next to a resource tile, placeholder or not, is the endpoint of
\* a road with it.
C3_FirstTileIsResource ==
    /\ \A i \in DOMAIN roadCoordMap :
          tileObjects[roadCoordMap[i].val.tiles[1]].kind = "resource"
    /\ \A i \in DOMAIN settlementCoordMap :
          tileObjects[settlementCoordMap[i].val.tiles[1]].kind = "resource"
    /\ Built =>
          \A t \in PlacedResourceTiles : \A d \in EdgeDirection :
              \A n \in PlacedAt(getNeighbourCoords(tileObjects[t].coords, d)) :
                  \E i \in DOMAIN roadCoordMap :
                      Range(roadCoordMap[i].val.tiles) = {t, n}

\* a road and a settlement that have a PlaceholderTile
C3_Witness ==
    /\ Built
    /\ \E i \in DOMAIN roadCoordMap :
          tileObjects[roadCoordMap[i].val.tiles[2]].kind = "placeholder"
    /\ \E i \in DOMAIN settlementCoordMap : \E k \in 2..3 :
          tileObjects[settlementCoordMap[i].val.tiles[k]].kind = "placeholder"

\* the cube coordinates with max(|q|, |r|, |s|) <= rad
CubeDisc(rad) ==
    {Coord(q, r, -q - r) : <<q, r>> \in
        {<<q, r>> \in (-rad..rad) \X (-rad..rad) : Abs(q + r) <= rad}}

CubeNorm(c) ==
    IF Abs(c.q) >= Abs(c.r) /\ Abs(c.q) >= Abs(c.s) THEN Abs(c.q)
    ELSE IF Abs(c.r) >= Abs(c.s) THEN Abs(c.r) ELSE Abs(c.s)

\* C8: tile placement for radius R puts exactly one tile at every cube
\* coordinate with max(|q|,|r|,|s|) <= R and nowhere else, 3R^2+3R+1 tiles
\* with pairwise distinct keys, of which the 6R with max(|q|,|r|,|s|) = R are
\* PlaceholderTiles and the other 3(R-1)^2+3(R-1)+1 are ResourceTiles.
C8_TilePlacement ==
    TilesPlaced =>
        /\ \A c \in CubeDisc(radius) :
              Cardinality({i \in DOMAIN tileCoordMap :
                              tileObjects[tileCoordMap[i].val].coords = c}) = 1
        /\ \A t \in PlacedTiles : tileObjects[t].coords \in CubeDisc(radius)
        /\ Len(tileCoordMap) = 3 * radius * radius + 3 * radius + 1
        /\ Len(tileCoordMap) = Len(tileObjects)
        /\ \A i, j \in DOMAIN tileCoordMap :
              tileCoordMap[i].key = tileCoordMap[j].key => i = j
        /\ \A t \in PlacedTiles :
              tileObjects[t].kind =
                 IF CubeNorm(tileObjects[t].coords) = radius
                 THEN "placeholder" ELSE "resource"
        /\ Cardinality(PlacedTiles \ PlacedResourceTiles) = 6 * radius
        /\ Cardinality(PlacedResourceTiles) =
              3 * (radius - 1) * (radius - 1) + 3 * (radius - 1) + 1

\* the board of the code: radius 3, 37 tiles, 18 placeholders and 19 resource
\* tiles
C8_Witness ==
    /\ TilesPlaced
    /\ radius = 3
    /\ Len(tileCoordMap) = 37
    /\ Cardinality(PlacedResourceTiles) = 19
    /\ Cardinality(PlacedTiles \ PlacedResourceTiles) = 18

\* a road or settlement map without the hover flags of its objects
WithoutHover(m) == [i \in DOMAIN m |-> [m[i] EXCEPT !.val.isMouseOver = FALSE]]

\* C18: once the build is done no step changes the keys or the entries of the
\* three maps, a tile's coordinate or a resource tile's resource or number; the
\* tiles' sizes change with a resize only, which sets the size of every tile,
\* placeholder or resource, to the new tile size.
C18_BoardImmutableOnceReady ==
    [][pc = "ready" =>
          /\ tileCoordMap' = tileCoordMap
          /\ WithoutHover(roadCoordMap') = WithoutHover(roadCoordMap)
          /\ WithoutHover(settlementCoordMap') = WithoutHover(settlementCoordMap)
          /\ DOMAIN tileObjects' = DOMAIN tileObjects
          /\ \A i \in DOMAIN tileObjects :
                 /\ tileObjects'[i].coords = tileObjects[i].coords
                 /\ tileObjects'[i].kind = tileObjects[i].kind
                 /\ tileObjects[i].kind = "resource" =>
                        /\ tileObjects'[i].resource = tileObjects[i].resource
                        /\ tileObjects'[i].number = tileObjects[i].number
                 /\ tileObjects'[i].size =
                        IF event' = "resize" THEN TileSizeOf(width')
                        ELSE tileObjects[i].size
          /\ tileSize' = TileSizeOf(width')]_vars

\* after a mousemove over the centre tile and a resize to the width 200 the
\* placeholder and the resource tiles have the size 14
C18_Witness ==
    /\ pc = "ready"
    /\ event = "resize"
    /\ width = 200
    /\ \E i, j \in DOMAIN tileObjects :
          /\ tileObjects[i].kind = "placeholder"
          /\ tileObjects[i].size = 14
          /\ tileObjects[j].kind = "resource"
          /\ tileObjects[j].size = 14
          /\ tileObjects[j].shape.size = Fix(7)
          /\ tileObjects[j].isMouseOver

\* the place of a resource tile in the order of get resourceTiles
ResourceOrder(t) == CHOOSE i \in DOMAIN resourceTiles : resourceTiles[i] = t

\* the candidates of createAllLocations' array for the key of a road map entry
CandidatesOf(key) ==
    SelectSeq(roads,
              LAMBDA road : getCoordHash(TileCoords(tileObjects, road.tiles)) = key)

\* C21: for an edge between two resource tiles the Road stored in the road map
\* after the build is the candidate created at the first discovery: its
\* tiles[0] is the endpoint enumerated first in resource-tile order, and its
\* tile order and angle are those of the first candidate of its key.
C21_FirstDiscoveryKept ==
    Built =>
        \A i \in DOMAIN roadCoordMap :
            LET road == roadCoordMap[i].val
                first == CandidatesOf(roadCoordMap[i].key)[1]
            IN  (\A k \in 1..2 : tileObjects[road.tiles[k]].kind = "resource") =>
                    /\ ResourceOrder(road.tiles[1]) < ResourceOrder(road.tiles[2])
                    /\ road.tiles = first.tiles
                    /\ road.shape.rotation = first.shape.rotation

\* the candidate pair and the vertex triad the loops of createAllLocations are
\* at are valid: the neighbour found is a neighbour, and the triad resolves to
\* three tiles that are pairwise neighbours
CurrentCandidateValid ==
    /\ pc = "roads" =>
          LET tile == resourceTiles[tileIdx]
              neighbour == getTileAtCoords(
                               getNeighbourCoords(tileObjects[tile].coords,
                                                  edgeDirections[dirIdx]))
          IN  neighbour # Undefined =>
                  /\ isNeighbour(tileObjects[tile].coords, tileObjects[neighbour].coords)
                  /\ Road(tileObjects, <<tile, neighbour>>).error = NoError
    /\ pc = "settlements" =>
          LET tile == resourceTiles[tileIdx]
              coords == getVertexCoords(tileObjects[tile].coords,
                                        vertexDirections[dirIdx])
              tiles == ResolvedTiles(coords)
          IN  /\ \A i \in DOMAIN coords : getTileAtCoords(coords[i]) # Undefined
              /\ Len(tiles) = 3
              /\ \A i, j \in 1..3 :
                    i # j => isNeighbour(tileObjects[tiles[i]].coords,
                                         tileObjects[tiles[j]].coords)
              /\ Settlement(tileObjects, tiles).error = NoError

\* the stages of the constructor, in their order
Stage(p) ==
    CASE p = "failed"         -> 0
      [] p = "createGrid"     -> 1
      [] p = "setTiles"       -> 2
      [] p = "roads"          -> 3
      [] p = "setRoads"       -> 4
      [] p = "settlements"    -> 5
      [] p = "setSettlements" -> 6
      [] p = "ready"          -> 7

\* the loops of the constructor are at an element of the lists they run over
InLoops ==
    /\ pc = "createGrid" => loopR \in -radius..radius /\ loopQ \in -radius..radius
    /\ pc \in {"roads", "settlements"} =>
          tileIdx \in DOMAIN resourceTiles /\ dirIdx \in DOMAIN edgeDirections

\* a step goes on to a later stage, or to a later iteration of its loops
Advances ==
    \/ Stage(pc') > Stage(pc)
    \/ /\ pc' = pc
       /\ \/ loopR' > loopR
          \/ loopR' = loopR /\ loopQ' > loopQ
          \/ loopR' = loopR /\ loopQ' = loopQ /\ tileIdx' > tileIdx
          \/ loopR' = loopR /\ loopQ' = loopQ /\ tileIdx' = tileIdx /\ dirIdx' > dirIdx

\* C22: for every radius R >= 1 the build never fails: every candidate Road
\* passes the neighbour check, every vertex triad of every resource tile
\* resolves to three existing tiles that are pairwise neighbours, no error is
\* thrown, and every step of the constructor goes on towards Ready, through
\* loops that are bounded.
C22_BuildNeverFails ==
    /\ [](pc # "failed" /\ error = NoError /\ CurrentCandidateValid /\ InLoops)
    /\ [][pc # "ready" => Advances]_vars

\* the build of the code's radius 3 is done: 19 resource tiles, their roads
\* and settlements
C22_Witness ==
    /\ pc = "ready"
    /\ error = NoError
    /\ radius = 3
    /\ Len(resourceTiles) = 19
    /\ Len(roads) = 6 * 19
    /\ Len(settlements) = 6 * 19

\* C23: after every resize the geometry used to draw and hit-test each
\* element is the one derived from the tiles' new size: each ResourceTile's
\* hexagon is centred at the tile's current pixel position with the tile's
\* current size, each Settlement's circle is at the current centroid of its
\* three tiles, and each Road's rectangle has the current tile size as length.
C23_ShapesFollowSize ==
    (pc = "ready" /\ event = "resize") =>
        /\ \A t \in PlacedResourceTiles :
              LET tile == tileObjects[t]
              IN  tile.shape = PointyHexagon(get2DCoords(tile.coords, tile.size)[1],
                                             get2DCoords(tile.coords, tile.size)[2],
                                             Fix(tile.size))
        /\ \A i \in DOMAIN settlementCoordMap :
              LET settlement == settlementCoordMap[i].val
              IN  <<settlement.shape.x, settlement.shape.y>> =
                      SettlementGet2DCoords(tileObjects, settlement.tiles)
        /\ \A i \in DOMAIN roadCoordMap :
              LET road == roadCoordMap[i].val
              IN  road.shape.width = Fix(tileObjects[road.tiles[1]].size)

\* the centre of the region Rectangle.contains tests: centerX, centerY
RectangleCentre(shape) ==
    <<shape.x + Over(shape.width, Fix(2)), shape.y + Over(shape.height, Fix(2))>>

\* C24: every interactive element is hit-tested where it is drawn: a Road's
\* shape tests a rectangle centred on the midpoint of its two tiles' pixel
\* positions, a Settlement's a circle at the centroid of its three tiles, a
\* ResourceTile's a hexagon at the tile's pixel position; two roads at
\* different midpoints never have the same hit region.
C24_HitTestedWhereDrawn ==
    Built =>
        /\ \A i \in DOMAIN roadCoordMap :
              LET road == roadCoordMap[i].val
              IN  RectangleCentre(road.shape) = RoadGet2DCoords(tileObjects, road.tiles)
        /\ \A i, j \in DOMAIN roadCoordMap :
              LET a == roadCoordMap[i].val
                  b == roadCoordMap[j].val
              IN  RoadGet2DCoords(tileObjects, a.tiles)
                      # RoadGet2DCoords(tileObjects, b.tiles) => a.shape # b.shape
        /\ \A i \in DOMAIN settlementCoordMap :
              LET settlement == settlementCoordMap[i].val
              IN  <<settlement.shape.x, settlement.shape.y>> =
                      SettlementGet2DCoords(tileObjects, settlement.tiles)
        /\ \A t \in PlacedResourceTiles :
              LET tile == tileObjects[t]
              IN  <<tile.shape.x, tile.shape.y>> = get2DCoords(tile.coords, tile.size)

\* what each stage of the constructor has to work with: the maps of the
\* stages before it are set (the road map, when the settlement loop starts,
\* from all the candidates), those of the stages to come are still empty
StageOutputs ==
    /\ Stage(pc) <= 2 => tileCoordMap = <<>>
    /\ Stage(pc) >= 3 =>
          /\ Len(tileCoordMap) = 3 * radius * radius + 3 * radius + 1
          /\ Len(tileCoordMap) = Len(tileObjects)
    /\ Stage(pc) <= 4 => roadCoordMap = <<>>
    /\ Stage(pc) >= 5 => Len(roadCoordMap) > 0
    /\ (pc = "settlements" /\ tileIdx = 1 /\ dirIdx = 1) =>
          roadCoordMap = NewMap(LocationEntries(tileObjects, roads))
    /\ Stage(pc) <= 6 => settlementCoordMap = <<>>

\* something is on the canvas, a listener is registered or has run
Presented ==
    canvas # "blank" \/ listeners # {} \/ event # "none" \/ mouse # Null

\* C25: the build stages run strictly in the order tiles placed, roads built,
\* settlements built, Ready, each with the completed output of the stages
\* before it, which it does not change; nothing is drawn and no listener runs
\* before the settlement map is built and the asset-loading promise has
\* resolved.
C25_StagesInOrder ==
    /\ [](StageOutputs /\ (Presented => pc = "ready" /\ assets = "loaded"))
    /\ [][/\ Stage(pc') \in {Stage(pc), Stage(pc) + 1}
          /\ Stage(pc) >= 3 => tileCoordMap' = tileCoordMap
          /\ Stage(pc) \in {5, 6} => roadCoordMap' = roadCoordMap
          /\ event' # "none" => pc = "ready" /\ assets = "loaded"]_vars

\* the board of radius 3 is built, the assets are loaded, the board is drawn
\* and a click has been handled
C25_Witness ==
    /\ pc = "ready"
    /\ radius = 3
    /\ assets = "loaded"
    /\ canvas = "board"
    /\ event = "click"
    /\ Len(settlementCoordMap) > 0

\* mouseListener.isMouseOver
HoverFlag(l) == ListenerObject(l).isMouseOver

\* the listeners a callback was dispatched to
CalledBack(dispatched, callback) ==
    {dispatched[i].listener :
        i \in {j \in DOMAIN dispatched : dispatched[j].callback = callback}}

\* C26: after each mousemove every listener's isMouseOver equals whether its
\* shape contains the pointer position; onMouseIn is called on an element
\* exactly in the steps that set its flag, onMouseOut exactly in the steps
\* that clear it, at most once a step, and only mousemove changes a flag: as
\* the flags start cleared, the two calls alternate for each element, starting
\* with onMouseIn.
C26_HoverEdgeTriggered ==
    /\ [](pc = "ready" =>
            /\ event = "none" => \A l \in Range(mouseListeners) : ~HoverFlag(l)
            /\ event = "mousemove" =>
                  \A l \in Range(mouseListeners) :
                      HoverFlag(l) = ShapeContains(l, mouse.x, mouse.y))
    /\ [][pc = "ready" =>
            \A l \in Range(mouseListeners) :
                /\ l \in CalledBack(calls', "onMouseIn") <=>
                       ~HoverFlag(l) /\ HoverFlag(l)'
                /\ l \in CalledBack(calls', "onMouseOut") <=>
                       HoverFlag(l) /\ ~HoverFlag(l)'
                /\ Cardinality({i \in DOMAIN calls' : calls'[i].listener = l}) <= 1
                /\ event' # "mousemove" => HoverFlag(l)' = HoverFlag(l)]_vars

\* a mousemove from the centre of the board to the north vertex of the centre
\* tile: the pointer leaves the roads and enters a settlement, the tile stays
\* hovered
C26_Witness ==
    /\ pc = "ready"
    /\ event = "mousemove"
    /\ \E l \in CalledBack(calls, "onMouseOut") : l.kind = "road"
    /\ \E l \in CalledBack(calls, "onMouseIn") : l.kind = "settlement" /\ HoverFlag(l)
    /\ \E l \in Range(mouseListeners) :
          l.kind = "tile" /\ HoverFlag(l) /\ l \notin CalledBack(calls, "onMouseIn")

\* C27: a mouseleave clears the recorded pointer position, leaves every
\* element's isMouseOver flag as it is and calls no callback; when the
\* pointer comes back over an element that was hovered as it left, the element
\* stays flagged and no onMouseIn is called on it.
C27_MouseLeaveKeepsHover ==
    /\ [](event = "mouseleave" => mouse = Null /\ calls = <<>>)
    /\ [][/\ event' = "mouseleave" =>
                \A l \in Range(mouseListeners) : HoverFlag(l)' = HoverFlag(l)
          /\ (event = "mouseleave" /\ event' = "mousemove") =>
                \A l \in Range(mouseListeners) :
                    (HoverFlag(l) /\ ShapeContains(l, mouse'.x, mouse'.y)) =>
                        /\ HoverFlag(l)'
                        /\ l \notin CalledBack(calls', "onMouseIn")]_vars

\* the pointer has left the canvas from over the centre tile and the roads:
\* no position is recorded, the tile and a road are still flagged
C27_Witness ==
    /\ pc = "ready"
    /\ event = "mouseleave"
    /\ mouse = Null
    /\ \E l \in Range(mouseListeners) : l.kind = "tile" /\ HoverFlag(l)
    /\ \E l \in Range(mouseListeners) : l.kind = "road" /\ HoverFlag(l)

\* C28: a click calls onClick on exactly the listeners whose shape contains
\* the recorded pointer position, each once and nothing else, and on none
\* when no position is recorded; the position is the one of the last
\* mousemove unless a mouseleave has cleared it since; a click changes no
\* isMouseOver flag and not the recorded position.
C28_ClickDispatch ==
    /\ [](event = "click" =>
            /\ mouse = Null => calls = <<>>
            /\ mouse # Null =>
                  /\ CalledBack(calls, "onClick") =
                        {l \in Range(mouseListeners) :
                            ShapeContains(l, mouse.x, mouse.y)}
                  /\ \A i \in DOMAIN calls : calls[i].callback = "onClick"
                  /\ Len(calls) = Cardinality(CalledBack(calls, "onClick")))
    /\ [](event \in {"none", "mouseleave"} => mouse = Null)
    /\ [][/\ event' = "click" =>
                /\ mouse' = mouse
                /\ \A l \in Range(mouseListeners) : HoverFlag(l)' = HoverFlag(l)
          /\ event' \notin {"mousemove", "mouseleave"} => mouse' = mouse]_vars

\* a click at the north vertex of the centre tile goes to the settlement there
\* and to the tile at once; one at the centre of the board to the tile and to
\* roads
C28_Witness ==
    /\ pc = "ready"
    /\ event = "click"
    /\ mouse # Null
    /\ \E l \in CalledBack(calls, "onClick") : l.kind = "tile"
    /\ \E l \in CalledBack(calls, "onClick") : l.kind = "settlement"
    /\ Len(calls) >= 2

\* a click with no position recorded, after a mouseleave that followed a hover
C28_WitnessNoPosition ==
    /\ pc = "ready"
    /\ event = "click"
    /\ mouse = Null
    /\ \E l \in Range(mouseListeners) : HoverFlag(l)

(***************************************************************************)
(* Calls of the functions of hex.ts and canvas.ts on their own: the        *)
(* arguments are drawn by the initial state, the call sets result.         *)
(***************************************************************************)
\* no BoardGame is being constructed
NoBoard ==
    /\ pc = "idle"
    /\ error = NoError
    /\ radius = 0
    /\ width = 0
    /\ tileSize = 0
    /\ rng = 0
    /\ loopR = 0
    /\ loopQ = 0
    /\ tileObjects = <<>>
    /\ tileCoordMap = <<>>
    /\ tileIdx = 1
    /\ dirIdx = 1
    /\ roads = <<>>
    /\ roadCoordMap = <<>>
    /\ settlements = <<>>
    /\ settlementCoordMap = <<>>
    /\ assets = "none"
    /\ NoEvents

Pending == [done |-> FALSE]

Returned(value) == [done |-> TRUE, value |-> value]

\* the call of f has returned
Called(f) == fn = f /\ result.done

\* the sequences over S of length at most n
SeqsUpTo(S, n) == UNION {[1..k -> S] : k \in 0..n}

\* the coordinates whose lists are hashed: printed they differ in sign, in
\* length and in their first character
HashCoords ==
    {Coord(0, 0, 0), Coord(1, -1, 0), Coord(-1, 1, 0), Coord(10, -1, -9)}

InitHash ==
    /\ NoBoard
    /\ fn \in {"getCoordHash", "verticiesAreEqual", "edgesAreEqual"}
    /\ args \in SeqsUpTo(HashCoords, MaxListLen) \X SeqsUpTo(HashCoords, MaxListLen)
    /\ result = Pending

\* getCoordHash(args[1]) and getCoordHash(args[2])
CallGetCoordHash ==
    /\ fn = "getCoordHash"
    /\ ~result.done
    /\ result' = Returned(<<getCoordHash(args[1]), getCoordHash(args[2])>>)
    /\ UNCHANGED <<fn, args>>
    /\ UNCHANGED buildVars
    /\ UNCHANGED uiVars

\* verticiesAreEqual(args[1], args[2]) and the call with the lists swapped
CallVerticiesAreEqual ==
    /\ fn = "verticiesAreEqual"
    /\ ~result.done
    /\ result' = Returned(<<verticiesAreEqual(args[1], args[2]),
                            verticiesAreEqual(args[2], args[1])>>)
    /\ UNCHANGED <<fn, args>>
    /\ UNCHANGED buildVars
    /\ UNCHANGED uiVars

\* edgesAreEqual(args[1], args[2]) and the call with the lists swapped
CallEdgesAreEqual ==
    /\ fn = "edgesAreEqual"
    /\ ~result.done
    /\ result' = Returned(<<edgesAreEqual(args[1], args[2]),
                            edgesAreEqual(args[2], args[1])>>)
    /\ UNCHANGED <<fn, args>>
    /\ UNCHANGED buildVars
    /\ UNCHANGED uiVars

NextHash ==
    \/ CallGetCoordHash
    \/ CallVerticiesAreEqual
    \/ CallEdgesAreEqual

SpecHash == InitHash /\ [][NextHash]_vars

\* the number of times c occurs in the list
Occurrences(list, c) == Cardinality({i \in DOMAIN list : list[i] = c})

IsPermutation(a, b) ==
    /\ Len(a) = Len(b)
    /\ \A c \in Range(a) \cup Range(b) : Occurrences(a, c) = Occurrences(b, c)

\* C4: two coordinate lists receive the same hash if and only if one is a
\* permutation of the other.
C4_HashIsCanonical ==
    Called("getCoordHash") =>
        ((result.value[1] = result.value[2]) <=> IsPermutation(args[1], args[2]))

\* two different orders of a triad with one hash, and the two orders of a pair
C4_Witness ==
    /\ Called("getCoordHash")
    /\ Len(args[1]) = 3
    /\ Cardinality(Range(args[1])) = 3
    /\ args[1] # args[2]
    /\ IsPermutation(args[1], args[2])
    /\ result.value[1] = result.value[2]

\* C29: verticiesAreEqual(a, b) and edgesAreEqual(a, b) are true if and only
\* if a and b contain the same set of coordinates, and give the same answer
\* when a and b are swapped.
C29_DecidesSetEquality ==
    (Called("verticiesAreEqual") \/ Called("edgesAreEqual")) =>
        /\ result.value[1] <=> (Range(args[1]) = Range(args[2]))
        /\ result.value[1] <=> result.value[2]

(***************************************************************************)
(* The tile methods, the constructors and cubeRound.                       *)
(***************************************************************************)
\* the coordinates of createGrid's two loops for a radius, in their order
GridCoords(rad) ==
    SelectSeq([k \in 1..((2 * rad + 1) * (2 * rad + 1)) |->
                  LET r == ((k - 1) \div (2 * rad + 1)) - rad
                      q == ((k - 1) % (2 * rad + 1)) - rad
                  IN  Coord(q, r, -q - r)],
              LAMBDA c : InGrid(c.q, c.r, c.s, rad))

\* one PointyHexTile at every coordinate of the disc of radius CallRadius
CallTiles ==
    [i \in DOMAIN GridCoords(CallRadius) |->
        PlaceholderTile(GridCoords(CallRadius)[i].q, GridCoords(CallRadius)[i].r,
                        GridCoords(CallRadius)[i].s, 7)]

CallCoords == Range(GridCoords(CallRadius))

\* the coordinates one step around the disc of radius CallRadius included
EdgeCoords == Range(GridCoords(CallRadius + 1))

\* the fractions cubeRound is applied to, in units of 1 / Scale
Fractions == (-(RoundSpan * Scale))..(RoundSpan * Scale)

InitCalls ==
    /\ NoBoard
    /\ result = Pending
    /\ \/ fn = "Road" /\ args \in [1..2 -> DOMAIN CallTiles]
       \/ fn = "Settlement" /\ args \in SeqsUpTo(DOMAIN CallTiles, 3)
       \/ fn = "getNeighbourCoords" /\ args \in CallCoords \X EdgeDirection
       \/ fn = "getVertexCoords" /\ args \in CallCoords \X VertexDirection
       \/ fn = "getEdgeCoords" /\ args \in CallCoords \X EdgeDirection
       \/ fn = "cubeRound" /\ args \in Fractions \X Fractions \X Fractions
       \/ fn = "isNeighbour" /\ args \in CallCoords \X CallCoords
       \/ fn = "vectorToDirection" /\ args \in CallCoords \X EdgeCoords

Call(f, value) ==
    /\ fn = f
    /\ ~result.done
    /\ result' = Returned(value)
    /\ UNCHANGED <<fn, args>>
    /\ UNCHANGED buildVars
    /\ UNCHANGED uiVars

\* new Road(tiles)
CallRoad == Call("Road", Road(CallTiles, args))

\* new Settlement(tiles)
CallSettlement == Call("Settlement", Settlement(CallTiles, args))

CallGetNeighbourCoords ==
    Call("getNeighbourCoords", getNeighbourCoords(args[1], args[2]))

CallGetVertexCoords == Call("getVertexCoords", getVertexCoords(args[1], args[2]))

CallGetEdgeCoords == Call("getEdgeCoords", getEdgeCoords(args[1], args[2]))

CallCubeRound == Call("cubeRound", cubeRound(args[1], args[2], args[3]))

\* tile.isNeighbour(other), the tiles given by their coordinates
CallIsNeighbour == Call("isNeighbour", isNeighbour(args[1], args[2]))

CallVectorToDirection ==
    Call("vectorToDirection", vectorToDirection(args[1], args[2]))

NextCalls ==
    \/ CallRoad
    \/ CallSettlement
    \/ CallGetNeighbourCoords
    \/ CallGetVertexCoords
    \/ CallGetEdgeCoords
    \/ CallCubeRound
    \/ CallIsNeighbour
    \/ CallVectorToDirection

SpecCalls == InitCalls /\ [][NextCalls]_vars

\* the number of lattice steps between two cube coordinates
CubeDistance(a, b) == CubeNorm(Coord(b.q - a.q, b.r - a.r, b.s - a.s))

\* lattice neighbours: one step apart
Adjacent(a, b) == CubeDistance(a, b) = 1

\* C5: constructing a Road fails, and creates no Road, whenever the second
\* tile is not one of the six lattice neighbours of the first (the same
\* coordinate included), and succeeds for every pair of lattice neighbours,
\* in either order.
C5_RoadNeedsNeighbours ==
    Called("Road") =>
        IF Adjacent(CallTiles[args[1]].coords, CallTiles[args[2]].coords)
        THEN /\ result.value.error = NoError
             /\ result.value.tiles = args
        ELSE /\ result.value.error = RoadError
             /\ result.value.tiles = <<>>

\* a Road of two neighbours, and the refusal of a tile paired with itself
C5_Witness ==
    /\ Called("Road")
    /\ \/ /\ args[1] = args[2]
          /\ result.value.error = RoadError
       \/ /\ CallTiles[args[1]].coords = Coord(0, 0, 0)
          /\ CallTiles[args[2]].coords = Coord(0, -1, 1)
          /\ result.value.error = NoError

\* three tiles that are pairwise lattice neighbours
IsThreeCycle(heap, tiles) ==
    /\ Len(tiles) = 3
    /\ \A i, j \in 1..3 : i # j => Adjacent(heap[tiles[i]].coords, heap[tiles[j]].coords)

\* C6 (as claimed): a Settlement is constructed if and only if the list holds
\* three pairwise neighbouring tiles; any other list is rejected with the
\* 'must be neighbours' failure.
C6_SettlementNeedsThreeCycle ==
    Called("Settlement") =>
        IF IsThreeCycle(CallTiles, args)
        THEN /\ result.value.error = NoError
             /\ result.value.tiles = args
        ELSE /\ result.value.error = SettlementError
             /\ result.value.tiles = <<>>

\* C6 (amended): a Settlement is constructed if and only if the list holds
\* three pairwise neighbouring tiles, in any order; any other list of at most
\* three tiles is rejected and no Settlement is created: with a TypeError when
\* the list is empty or holds two neighbouring tiles (they pass the neighbour
\* check, get2DCoords then reads a missing tile), with the 'must be
\* neighbours' failure otherwise.
C6_SettlementRejectsOtherLists ==
    Called("Settlement") =>
        IF IsThreeCycle(CallTiles, args)
        THEN /\ result.value.error = NoError
             /\ result.value.tiles = args
        ELSE /\ result.value.tiles = <<>>
             /\ result.value.error =
                   IF \/ args = <<>>
                      \/ /\ Len(args) = 2
                         /\ Adjacent(CallTiles[args[1]].coords, CallTiles[args[2]].coords)
                   THEN TypeError
                   ELSE SettlementError

\* two neighbouring tiles, refused with the TypeError
C6_Witness ==
    /\ Called("Settlement")
    /\ Len(args) = 2
    /\ Adjacent(CallTiles[args[1]].coords, CallTiles[args[2]].coords)
    /\ result.value.error = TypeError
    /\ result.value.tiles = <<>>

CoordSum(c) == c.q + c.r + c.s

\* C9: q + r + s = 0 holds of every neighbour coordinate, of every member of
\* every vertex triad and of every edge pair of a tile at a valid cube
\* coordinate, and of the result of cubeRound for every input.
C9_CubeInvariantPreserved ==
    /\ Called("getNeighbourCoords") => CoordSum(result.value) = 0
    /\ Called("getVertexCoords") =>
          Len(result.value) = 3 /\ \A i \in 1..3 : CoordSum(result.value[i]) = 0
    /\ Called("getEdgeCoords") =>
          Len(result.value) = 2 /\ \A i \in 1..2 : CoordSum(result.value[i]) = 0
    /\ Called("cubeRound") => CoordSum(result.value) = 0

\* an input on the cube plane whose three roundings do not sum to zero
C9_Witness ==
    /\ Called("cubeRound")
    /\ args[1] + args[2] + args[3] = 0
    /\ MathRound(args[1]) + MathRound(args[2]) + MathRound(args[3]) # 0
    /\ CoordSum(result.value) = 0

\* the rounding residual of a fraction, in units of 1 / Scale
Residual(n) == Abs(MathRound(n) * Scale - n)

RecomputedQ(q, r, s) ==
    Coord(-MathRound(r) - MathRound(s), MathRound(r), MathRound(s))

RecomputedR(q, r, s) ==
    Coord(MathRound(q), -MathRound(q) - MathRound(s), MathRound(s))

RecomputedS(q, r, s) ==
    Coord(MathRound(q), MathRound(r), -MathRound(q) - MathRound(r))

\* C10 (as claimed): ties go to q over r over s: with equal q- and r-residuals
\* above the s-residual q is recomputed, with equal r- and s-residuals not
\* exceeded by the q-residual r is recomputed.
C10_TiesToEarlierComponent ==
    Called("cubeRound") =>
        LET q == args[1]
            r == args[2]
            s == args[3]
        IN  /\ (Residual(q) = Residual(r) /\ Residual(q) > Residual(s))
                   => result.value = RecomputedQ(q, r, s)
            /\ (Residual(r) = Residual(s) /\ Residual(q) <= Residual(r))
                   => result.value = RecomputedR(q, r, s)

\* C10 (amended): ties go to the later component, s over r over q: with equal
\* q- and r-residuals above the s-residual r is recomputed, with equal r- and
\* s-residuals not exceeded by the q-residual s is recomputed; q is recomputed
\* only when its residual is strictly the largest.
C10_TiesToLaterComponent ==
    Called("cubeRound") =>
        LET q == args[1]
            r == args[2]
            s == args[3]
        IN  /\ (Residual(q) = Residual(r) /\ Residual(q) > Residual(s))
                   => result.value = RecomputedR(q, r, s)
            /\ (Residual(r) = Residual(s) /\ Residual(q) <= Residual(r))
                   => result.value = RecomputedS(q, r, s)
            /\ (Residual(q) > Residual(r) /\ Residual(q) > Residual(s))
                   => result.value = RecomputedQ(q, r, s)

\* a tie of the q- and r-residuals where recomputing r and recomputing q differ
C10_Witness ==
    /\ Called("cubeRound")
    /\ Residual(args[1]) = Residual(args[2])
    /\ Residual(args[1]) > Residual(args[3])
    /\ args[1] + args[2] + args[3] = 0
    /\ result.value = RecomputedR(args[1], args[2], args[3])
    /\ result.value # RecomputedQ(args[1], args[2], args[3])

\* C11 (as claimed): cubeRound returns every input of three integers as it is.
C11_IntegersUnchanged ==
    (/\ Called("cubeRound")
     /\ \A i \in 1..3 : args[i] % Scale = 0)
        => result.value = Coord(args[1] \div Scale, args[2] \div Scale,
                                args[3] \div Scale)

\* C11 (amended): cubeRound returns every input of three integers that sum to
\* zero as it is, (1, -1, 0) among them.
C11_CubeIntegersUnchanged ==
    (/\ Called("cubeRound")
     /\ \A i \in 1..3 : args[i] % Scale = 0
     /\ args[1] + args[2] + args[3] = 0)
        => result.value = Coord(args[1] \div Scale, args[2] \div Scale,
                                args[3] \div Scale)

\* cubeRound applied to (1, -1, 0)
C11_Witness ==
    /\ Called("cubeRound")
    /\ args = <<Scale, -Scale, 0>>
    /\ result.value = Coord(1, -1, 0)

\* the vertex directions of the tile at c whose triad is the set of triad
SharedVertexDirections(c, triad) ==
    {w \in VertexDirection : Range(getVertexCoords(c, w)) = Range(triad)}

\* C12: each of the two other coordinates of a tile's vertex triad has exactly
\* one vertex direction whose triad is the same set of three coordinates; its
\* other five vertex directions give a different set.
C12_VertexTriadSymmetry ==
    Called("getVertexCoords") =>
        \A k \in 2..3 :
            Cardinality(SharedVertexDirections(result.value[k], result.value)) = 1

\* north of (0,0,0) is southWest of (1,-1,0) and is not south of (1,-1,0)
C12_Witness ==
    /\ Called("getVertexCoords")
    /\ args = <<Coord(0, 0, 0), "north">>
    /\ result.value[3] = Coord(1, -1, 0)
    /\ SharedVertexDirections(Coord(1, -1, 0), result.value) = {"southWest"}
    /\ Range(getVertexCoords(Coord(1, -1, 0), "south")) # Range(result.value)

\* the pairing northEast/southWest, east/west, southEast/northWest
Opposite ==
    [d \in EdgeDirection |->
        CASE d = "northEast" -> "southWest"
          [] d = "east"      -> "west"
          [] d = "southEast" -> "northWest"
          [] d = "southWest" -> "northEast"
          [] d = "west"      -> "east"
          [] d = "northWest" -> "southEast"]

\* C13: the edge pair of tile T in direction d is the same set as the edge
\* pair of T's neighbour N in direction d taken in the opposite direction, and
\* is the set of no other combination of a tile and a direction than these two.
C13_EdgeSymmetry ==
    Called("getEdgeCoords") =>
        LET T == args[1]
            d == args[2]
            N == result.value[2]
        IN  /\ Range(getEdgeCoords(N, Opposite[d])) = Range(result.value)
            /\ \A c \in EdgeCoords, e \in EdgeDirection :
                   Range(getEdgeCoords(c, e)) = Range(result.value)
                       => \/ c = T /\ e = d
                          \/ c = N /\ e = Opposite[d]

\* (0,0,0) northEast is (1,-1,0) southWest and is not (-1,0,1) west
C13_Witness ==
    /\ Called("getEdgeCoords")
    /\ args = <<Coord(0, 0, 0), "northEast">>
    /\ Range(getEdgeCoords(Coord(1, -1, 0), "southWest")) = Range(result.value)
    /\ Range(getEdgeCoords(Coord(-1, 0, 1), "west")) # Range(result.value)

\* C14: isNeighbour is symmetric, and true exactly of two tiles whose
\* coordinates differ by one of the six unit cube vectors: never of a tile and
\* itself, never of tiles two steps apart.
C14_IsNeighbourSymmetricExact ==
    Called("isNeighbour") =>
        /\ result.value = isNeighbour(args[2], args[1])
        /\ result.value <=> Adjacent(args[1], args[2])

\* (1,-1,0) and (-1,0,1), two steps apart, are not neighbours
C14_Witness ==
    /\ Called("isNeighbour")
    /\ args = <<Coord(1, -1, 0), Coord(-1, 0, 1)>>
    /\ result.value = FALSE
    /\ isNeighbour(args[2], args[1]) = FALSE

\* C15: for neighbouring coordinates A and B the directions from A to B and
\* from B to A are opposite.
C15_OppositeDirections ==
    (Called("vectorToDirection") /\ Adjacent(args[1], args[2])) =>
        /\ result.value \in EdgeDirection
        /\ vectorToDirection(args[2], args[1]) = Opposite[result.value]

\* from (0,0,0) to (1,-1,0) is northEast, the way back southWest
C15_Witness ==
    /\ Called("vectorToDirection")
    /\ args = <<Coord(0, 0, 0), Coord(1, -1, 0)>>
    /\ result.value = "northEast"
    /\ vectorToDirection(args[2], args[1]) = "southWest"

\* C16: vectorToDirection from c to the neighbour of c in direction d is d, and
\* is undefined to every coordinate that is not a neighbour, c itself included.
C16_InverseOfNeighbour ==
    Called("vectorToDirection") =>
        /\ \A d \in EdgeDirection :
               args[2] = getNeighbourCoords(args[1], d) => result.value = d
        /\ ~Adjacent(args[1], args[2]) => result.value = "undefined"

\* the direction from (1,-1,0) to its neighbour to the west, (0,-1,1), is west
C16_Witness ==
    /\ Called("vectorToDirection")
    /\ args = <<Coord(1, -1, 0), getNeighbourCoords(Coord(1, -1, 0), "west")>>
    /\ args[2] = Coord(0, -1, 1)
    /\ result.value = "west"

(***************************************************************************)
(* createAllLocations on any tile map: the tiles setter is given any list  *)
(* of tiles on the disc of radius 1 around a resource tile at the origin,  *)
(* each other coordinate holding a ResourceTile, a PlaceholderTile or no   *)
(* tile.  createGrid itself yields only the list with the six              *)
(* placeholders.                                                           *)
(***************************************************************************)
AnyGridCoords == GridCoords(1)

\* the tiles of a choice of kinds, in createGrid's order
TilesOfKinds(kinds) ==
    LET present == SelectSeq([i \in DOMAIN AnyGridCoords |-> i],
                             LAMBDA i : kinds[i] # "absent")
    IN  [n \in DOMAIN present |->
            LET c == AnyGridCoords[present[n]]
            IN  IF kinds[present[n]] = "resource"
                THEN ResourceTile(c.q, c.r, c.s, 7, 0)
                ELSE PlaceholderTile(c.q, c.r, c.s, 7)]

InitAnyGrid ==
    /\ pc = "setTiles"
    /\ error = NoError
    /\ radius = 1
    /\ width = 100
    /\ tileSize = 7
    /\ rng = 0
    /\ loopR = 1
    /\ loopQ = 1
    /\ \E kinds \in [DOMAIN AnyGridCoords -> {"absent", "placeholder", "resource"}] :
          /\ \A i \in DOMAIN AnyGridCoords :
                AnyGridCoords[i] = Coord(0, 0, 0) => kinds[i] = "resource"
          /\ tileObjects = TilesOfKinds(kinds)
    /\ tileCoordMap = <<>>
    /\ tileIdx = 1
    /\ dirIdx = 1
    /\ roads = <<>>
    /\ roadCoordMap = <<>>
    /\ settlements = <<>>
    /\ settlementCoordMap = <<>>
    /\ assets = "loading"
    /\ NoEvents
    /\ fn = "none"
    /\ args = <<>>
    /\ result = Pending

NextAnyGrid ==
    \/ SetTiles
    \/ RoadStep
    \/ SetRoads
    \/ SettlementStep
    \/ SetSettlements
    \/ InitializeGame
    \/ LoadAssetsRejected
    \/ MouseMove
    \/ Click
    \/ MouseLeave
    \/ Resize

SpecAnyGrid == InitAnyGrid /\ [][NextAnyGrid]_vars

\* the triad the settlement loop is at
CurrentTriad ==
    getVertexCoords(tileObjects[resourceTiles[tileIdx]].coords, vertexDirections[dirIdx])

C17_FailedBuildAborted ==
    /\ [](pc = "failed" =>
             /\ error # NoError
             /\ listeners = {}
             /\ canvas = "blank"
             /\ event = "none"
             /\ calls = <<>>)
    /\ [][pc = "failed" => pc' = "failed"]_vars

\* a Settlement constructor has thrown after the road map was set
C17_Witness ==
    /\ pc = "failed"
    /\ error = SettlementError
    /\ roadCoordMap # <<>>
    /\ listeners = {}
    /\ canvas = "blank"

(***************************************************************************)
(* The containment tests of shapes.ts, applied to every point held in a    *)
(* box around the shape.                                                   *)
(***************************************************************************)
\* the sizes, radii, widths and heights: -1 .. MaxShapeSize
ShapeSizes == {Fix(k) : k \in -1..MaxShapeSize}

\* the coordinates of the points tested: every number held between
\* -(MaxShapeSize + 1) and MaxShapeSize + 1
ShapePoints == (-Fix(MaxShapeSize + 1))..Fix(MaxShapeSize + 1)

\* the centres of the hexagons and circles: the origin and (1/2, -1/4)
ShapeCentres == {<<0, 0>>, <<Unit \div 2, -(Unit \div 4)>>}

\* the widths and heights of the rectangles: -1, 0 and 1
RectangleSides == {Fix(k) : k \in -1..1}

\* the coordinates of the points tested against a rectangle
RectanglePoints == (-Fix(1) - 2)..(Fix(1) + 2)

\* the rectangles: placed as Road places them, around the origin, or with
\* their corner at the origin
Rectangles ==
    {Rectangle(x, y, w, h, rotation) :
        x \in {0}, y \in {0}, w \in RectangleSides, h \in RectangleSides,
        rotation \in {0, 30, 90}}
    \cup {Rectangle(-Over(w, Fix(2)), -Over(h, Fix(2)), w, h, rotation) :
            w \in RectangleSides, h \in RectangleSides, rotation \in {0, 30, 90}}

InitShapes ==
    /\ NoBoard
    /\ result = Pending
    /\ \/ /\ fn = "PointyHexagon.contains"
          /\ args \in [shape : {PointyHexagon(c[1], c[2], size) :
                                    c \in ShapeCentres, size \in ShapeSizes},
                        x : ShapePoints, y : ShapePoints]
       \/ /\ fn = "Rectangle.contains"
          /\ args \in [shape : Rectangles,
                        x : RectanglePoints, y : RectanglePoints]
       \/ /\ fn = "Circle.contains"
          /\ args \in [shape : {Circle(c[1], c[2], r) :
                                    c \in ShapeCentres, r \in RectangleSides},
                        x : RectanglePoints, y : RectanglePoints]

CallPointyHexagonContains ==
    Call("PointyHexagon.contains",
         PointyHexagonContains(args.shape, args.x, args.y))

CallRectangleContains ==
    Call("Rectangle.contains", RectangleContains(args.shape, args.x, args.y))

CallCircleContains ==
    Call("Circle.contains", CircleContains(args.shape, args.x, args.y))

NextShapes ==
    \/ CallPointyHexagonContains
    \/ CallRectangleContains
    \/ CallCircleContains

SpecShapes == InitShapes /\ [][NextShapes]_vars

\* C19 (as claimed): a rectangle of width <= 0 or height <= 0 and a hexagon of
\* size <= 0 contain no point, their own centre included.
C19_DegenerateNotContained ==
    /\ (/\ Called("Rectangle.contains")
        /\ args.shape.width <= 0 \/ args.shape.height <= 0)
           => result.value = FALSE
    /\ (Called("PointyHexagon.contains") /\ args.shape.size <= 0)
           => result.value = FALSE

\* the square of the distance of the point tested from the centre of the
\* shape, exactly
DistanceSquared ==
    (args.x - args.shape.x) * (args.x - args.shape.x)
        + (args.y - args.shape.y) * (args.y - args.shape.y)

\* the barycentric test of the point (x, y) against the triangle of the centre
\* and the vertices side and side + 1 of the hexagon
InFanTriangle(shape, side, x, y) ==
    isPointInTriangle(x, y, shape.x, shape.y,
                      shape.x + Times(shape.size, MathCos(60 * side + 30)),
                      shape.y + Times(shape.size, MathSin(60 * side + 30)),
                      shape.x + Times(shape.size, MathCos(60 * side + 90)),
                      shape.y + Times(shape.size, MathSin(60 * side + 90)))

\* the rounding error allowed to a length of size: one part in Unit, rounded up
Slack(size) == (size + Unit - 1) \div Unit

====
